---- MODULE Spec2Model ----
(***************************************************************************)
(* carscrape.py: the paginated listing-id harvester (search_one_car_type), *)
(* the detail-page extractor (scrape_one_car) and their composition        *)
(* (search_all_car_types, scrape_all_cars), with the browser as the        *)
(* environment: what a page shows is chosen when the code reads it.        *)
(***************************************************************************)
EXTENDS Integers, Sequences, FiniteSets, TLC

\* ------------------------------------------------------------------ bounds
\* Result pages of one search: the last page has no active next-page arrow.
MaxPages == 3
\* Largest expected total of a CarTup.
MaxTotal == 5
\* Longest key-specifications list of a detail page.
MaxEntries == 2
\* Most car types handed to search_all_car_types.
MaxCars == 2

\* --------------------------------------------------------------- constants
BASE_URL == "https://www.autotrader.co.uk"

\* Python values with no TLA+ counterpart.
None == "None"
Unbound == "<unbound>"
NoExc == "none"

VARIABLES
    \* main / search_all_car_types / scrape_all_cars
    these_cars,      \* the list of CarTup handed to search_all_car_types
    main_pc,         \* "none" | "search_all" | "scrape_all" | "done" | "raised"
    car_idx,         \* position of the for loop of search_all_car_types
    results_list,    \* list of <<make, model, set of ids>>
    tup_idx,         \* position of the outer for loop of scrape_all_cars
    pending,         \* ids of the current car_set not yet iterated
    all_ads,         \* list of Advertisement
    ads_seen,        \* history: what each detail page showed, one per ad
    \* search_one_car_type
    hpc,             \* "idle" | "start" | "header" | "loop" | "next" | "returned" | "raised"
    next_car,        \* the CarTup argument
    total_cars,
    browser,         \* Unbound | None | "open" | "closed"
    cars_found,
    clicks,          \* history: next-page navigations triggered
    pagesRead,       \* history: the id set of every result page read
    \* scrape_one_car
    spc,             \* "idle" | "start" | "required" | "specs" | "tech" | "check" | "returned" | "raised"
    car_id,          \* the next_car argument of scrape_one_car
    ad_browser,      \* the browser local of scrape_one_car
    next_ad,
    next_description,
    next_price,
    next_seller,
    car_specs,
    next_emission,
    vehicle_check,   \* [stolen, scrapped, write_off]: next_was_stolen, ...
    seen,            \* history: what the detail page showed
    \* environment
    firefox,         \* running Firefox processes
    exc              \* the exception that ended an operation: "Type:line"

main_vars == <<these_cars, main_pc, car_idx, results_list, tup_idx, pending,
               all_ads, ads_seen>>
harvest_vars == <<hpc, next_car, total_cars, browser, cars_found, clicks, pagesRead>>
scrape_vars == <<spc, car_id, ad_browser, next_ad, next_description, next_price,
                 next_seller, car_specs, next_emission, vehicle_check, seen>>
vars == <<main_vars, harvest_vars, scrape_vars, firefox, exc>>

\* ------------------------------------------------------------ data types
CarTup(make, model, total) == [make |-> make, model |-> model, total |-> total]

\* int(s) on the decimal strings the model uses; any other string raises ValueError.
IntTable ==
    ("0" :> 0) @@ ("1" :> 1) @@ ("2" :> 2) @@ ("3" :> 3) @@ ("4" :> 4) @@
    ("5" :> 5) @@ ("6" :> 6) @@ ("7" :> 7) @@ ("8" :> 8) @@ ("9" :> 9)
IsInt(s) == s \in DOMAIN IntTable
IntOf(s) == IntTable[s]

\* The total column of the CSV file: a decimal string, or text that is no number.
TotalStrings == {s \in DOMAIN IntTable : IntTable[s] <= MaxTotal} \cup {"n/a"}

\* ----------------------------------------------- search_one_car_type
\* cars_found.add(car.get_attribute('id')) for every car of the page.
AddIdsReplace(found, page) == page
AddIds(found, page) == found \cup page

\* len(cars_found) >= total_cars
ThresholdMetStrict(found, total) == Cardinality(found) > total
ThresholdMetOffByOne(found, total) == Cardinality(found) + 1 >= total
ThresholdMet(found, total) == Cardinality(found) >= total

\* find_element_by_class_name('pagination--right__active') finds nothing:
\* NoSuchElementException leaves search_one_car_type.
AfterMissingArrowRetry == "next"
AfterMissingArrow == "raised"

\* open_browser: Firefox is started, then browser.get either succeeds (the
\* browser is returned) or raises (logged, None is returned, the process stays).
OpenResults == {"open", None}

\* clean_up: close and quit; on None the AttributeError is caught and logged.
CleanUp(b) == IF b = "open" THEN "closed" ELSE b
Running(b, n) == IF b = "open" THEN n - 1 ELSE n

HarvestReset ==
    /\ total_cars' = 0
    /\ browser' = Unbound
    /\ cars_found' = {}
    /\ clicks' = 0
    /\ pagesRead' = <<>>

\* Lines 203-218: the locals, int(next_car.total), open_browser(search_url).
SearchOneOpen ==
    /\ hpc = "start"
    /\ IF ~IsInt(next_car.total)
       THEN /\ hpc' = "raised"
            /\ exc' = "ValueError:205"
            /\ UNCHANGED <<total_cars, browser, cars_found, firefox>>
       ELSE /\ total_cars' = IntOf(next_car.total)
            /\ cars_found' = {}
            /\ \E b \in OpenResults : browser' = b
            /\ firefox' = firefox + 1
            /\ hpc' = "header"
            /\ exc' = NoExc
    /\ UNCHANGED <<next_car, clicks, pagesRead, main_vars, scrape_vars>>

\* The first word of the results-count header, as the site may render it.
HeaderWords == {"0", "3", "1,234", ""}

\* Lines 221-223: the site's own total, read and parsed (and not used).
SearchOneHeader ==
    /\ hpc = "header"
    /\ IF browser = None
       THEN /\ hpc' = "raised"
            /\ exc' = "AttributeError:221"
       ELSE \E present \in BOOLEAN, word \in HeaderWords :
              IF ~present
              THEN /\ hpc' = "raised"
                   /\ exc' = "NoSuchElementException:221"
              ELSE IF ~IsInt(word)
              THEN /\ hpc' = "raised"
                   /\ exc' = "ValueError:223"
              ELSE /\ hpc' = "loop"
                   /\ exc' = NoExc
    /\ UNCHANGED <<next_car, total_cars, browser, cars_found, clicks, pagesRead,
                   firefox, main_vars, scrape_vars>>

\* Lines 229-239 and, on break, 249-251: read the page, test, clean_up, return.
SearchOneReadPage(ids) ==
    /\ hpc = "loop"
    /\ \E page \in SUBSET ids :
         LET found == IF browser # None THEN AddIds(cars_found, page) ELSE cars_found
             read == IF browser # None THEN Append(pagesRead, page) ELSE pagesRead
         IN /\ cars_found' = found
            /\ pagesRead' = read
            /\ IF ThresholdMet(found, total_cars)
               THEN /\ hpc' = "returned"
                    /\ browser' = CleanUp(browser)
                    /\ firefox' = Running(browser, firefox)
               ELSE /\ hpc' = "next"
                    /\ UNCHANGED <<browser, firefox>>
    /\ UNCHANGED <<next_car, total_cars, clicks, exc, main_vars, scrape_vars>>

\* Lines 242-246: find the arrow, click it, wait up to 60 s for its staleness.
SearchOneNextPage ==
    /\ hpc = "next"
    /\ IF browser = None
       THEN /\ hpc' = "raised"
            /\ exc' = "AttributeError:243"
            /\ UNCHANGED clicks
       ELSE \E arrow \in {a \in BOOLEAN : a => Len(pagesRead) < MaxPages},
               stale \in BOOLEAN :
              IF ~arrow
              THEN /\ hpc' = AfterMissingArrow
                   /\ exc' = "NoSuchElementException:243"
                   /\ UNCHANGED clicks
              ELSE /\ clicks' = clicks + 1
                   /\ IF stale
                      THEN /\ hpc' = "loop"
                           /\ exc' = NoExc
                      ELSE /\ hpc' = "raised"
                           /\ exc' = "TimeoutException:246"
    /\ UNCHANGED <<next_car, total_cars, browser, cars_found, pagesRead, firefox,
                   main_vars, scrape_vars>>

HarvestEnded == hpc \in {"returned", "raised"}

\* ---------------------------------------------------- the detail page
\* What a lookup on the page yields: the element may be absent. For the seller
\* paragraph, text is the tag of its child element: "a" when it holds a link.
Absent == [present |-> FALSE, text |-> ""]
Shown(t) == [present |-> TRUE, text |-> t]
NoList == [present |-> FALSE, items |-> <<>>]
ListOf(l) == [present |-> TRUE, items |-> l]

SeqsUpTo(S, n) == UNION {[1..k -> S] : k \in 0..n}

\* The icon types of the dispatch chain, lines 342-355, and one it does not know.
Markers == {"ks-manufactured-year", "ks-body-type", "ks-mileage", "ks-engine-size",
            "ks-transmission", "ks-fuel-type", "ks-doors"}
OtherMarker == "ks-owners"

\* One <li> of the key-specifications list. segs is the xlink:href of its <use>
\* icon cut at every '#', as icon_link.split('#') yields it.
SpecEntry(marker, text) ==
    [use |-> TRUE, href |-> TRUE, segs |-> <<"/sprite.svg", marker>>, text |-> text]
EntryNoIcon == [use |-> FALSE, href |-> FALSE, segs |-> <<>>, text |-> "a"]
EntryNoHref == [use |-> TRUE, href |-> FALSE, segs |-> <<>>, text |-> "a"]
EntryNoHash == [use |-> TRUE, href |-> TRUE, segs |-> <<"ks-doors">>, text |-> "a"]

\* ------------------------------------------------------------ Advertisement
\* Advertisement.__init__, lines 52-73.
Advertisement ==
    [hyperlink |-> "", description |-> "", seller_type |-> "", price |-> "",
     make |-> "", model |-> "", year |-> "", mileage |-> "", body_style |-> "",
     co2emission |-> "", doors |-> "", transmission |-> "", was_stolen |-> "",
     was_write_off |-> "", was_scrapped |-> "", engine_size |-> "", fuel_type |-> ""]

AdFields == DOMAIN Advertisement

\* ----------------------------------------------------------- scrape_one_car
\* Line 300.
AdvertUrl(id) == BASE_URL \o "/classified/advert/" \o id

\* Lines 322-329.
UnknownSpecs ==
    [year |-> "Unknown", body_style |-> "Unknown", mileage |-> "Unknown",
     engine_size |-> "Unknown", transmission |-> "Unknown", fuel_type |-> "Unknown",
     doors |-> "Unknown"]

\* Lines 342-355: seven independent ifs on icon_type.
SetSpecFirstWins(specs, icon_type, text) ==
    LET put(s, marker, field) ==
            IF icon_type = marker /\ s[field] = "Unknown"
            THEN [s EXCEPT ![field] = text] ELSE s
    IN put(put(put(put(put(put(put(specs,
         "ks-manufactured-year", "year"),
         "ks-body-type", "body_style"),
         "ks-mileage", "mileage"),
         "ks-engine-size", "engine_size"),
         "ks-transmission", "transmission"),
         "ks-fuel-type", "fuel_type"),
         "ks-doors", "doors")
SetSpec(specs, icon_type, text) ==
    LET s1 == IF icon_type = "ks-manufactured-year"
              THEN [specs EXCEPT !.year = text] ELSE specs
        s2 == IF icon_type = "ks-body-type"
              THEN [s1 EXCEPT !.body_style = text] ELSE s1
        s3 == IF icon_type = "ks-mileage"
              THEN [s2 EXCEPT !.mileage = text] ELSE s2
        s4 == IF icon_type = "ks-engine-size"
              THEN [s3 EXCEPT !.engine_size = text] ELSE s3
        s5 == IF icon_type = "ks-transmission"
              THEN [s4 EXCEPT !.transmission = text] ELSE s4
        s6 == IF icon_type = "ks-fuel-type"
              THEN [s5 EXCEPT !.fuel_type = text] ELSE s5
        s7 == IF icon_type = "ks-doors"
              THEN [s6 EXCEPT !.doors = text] ELSE s6
    IN s7

\* Lines 338-340: what reading the icon type of one <li> raises, if anything.
EntryError(e) ==
    IF ~e.use THEN "NoSuchElementException:338"
    ELSE IF ~e.href THEN "AttributeError:340"
    ELSE IF Len(e.segs) < 2 THEN "IndexError:340"
    ELSE NoExc

\* Lines 336-355: the for loop over available_specs.
RECURSIVE ScanSpecs(_, _)
ScanSpecs(specs, entries) ==
    IF entries = <<>> THEN [car_specs |-> specs, exc |-> NoExc]
    ELSE LET e == Head(entries)
         IN IF EntryError(e) # NoExc
            THEN [car_specs |-> specs, exc |-> EntryError(e)]
            ELSE ScanSpecs(SetSpec(specs, e.segs[2], e.text), Tail(entries))

\* Lines 363-366: the second span of the last row of the tech-specs table.
ScanEmission(rows) ==
    IF Len(rows) = 0 THEN [value |-> "Unknown", exc |-> "IndexError:364"]
    ELSE IF Len(rows[Len(rows)]) < 2 THEN [value |-> "Unknown", exc |-> "IndexError:366"]
    ELSE [value |-> rows[Len(rows)][2], exc |-> NoExc]

UnknownCheck == [stolen |-> "Unknown", scrapped |-> "Unknown", write_off |-> "Unknown"]

\* Lines 377-388: items 0, 1, 2 of the check list are stolen, scrapped, write off.
ScanVehicleCheck(items) ==
    IF Len(items) < 1 THEN [check |-> UnknownCheck, exc |-> "IndexError:381"]
    ELSE IF Len(items[1]) < 2 THEN [check |-> UnknownCheck, exc |-> "IndexError:382"]
    ELSE IF Len(items) < 2 THEN [check |-> UnknownCheck, exc |-> "IndexError:384"]
    ELSE IF Len(items[2]) < 2 THEN [check |-> UnknownCheck, exc |-> "IndexError:385"]
    ELSE IF Len(items) < 3 THEN [check |-> UnknownCheck, exc |-> "IndexError:387"]
    ELSE IF Len(items[3]) < 2 THEN [check |-> UnknownCheck, exc |-> "IndexError:388"]
    ELSE [check |-> [stolen |-> items[1][2], scrapped |-> items[2][2],
                     write_off |-> items[3][2]],
          exc |-> NoExc]

\* Lines 391-405: the fifteen assignments to next_ad.
BuildAdvertisementNoPrice(url, description, seller, price, specs, emission, check) ==
    [Advertisement EXCEPT
        !.hyperlink = url, !.description = description, !.seller_type = seller,
        !.year = specs.year, !.mileage = specs.mileage,
        !.body_style = specs.body_style, !.co2emission = emission,
        !.doors = specs.doors, !.transmission = specs.transmission,
        !.was_stolen = check.stolen, !.was_write_off = check.write_off,
        !.was_scrapped = check.scrapped, !.engine_size = specs.engine_size,
        !.fuel_type = specs.fuel_type]
BuildAdvertisement(url, description, seller, price, specs, emission, check) ==
    [Advertisement EXCEPT
        !.hyperlink = url, !.description = description, !.seller_type = seller,
        !.price = price,
        !.year = specs.year, !.mileage = specs.mileage,
        !.body_style = specs.body_style, !.co2emission = emission,
        !.doors = specs.doors, !.transmission = specs.transmission,
        !.was_stolen = check.stolen, !.was_write_off = check.write_off,
        !.was_scrapped = check.scrapped, !.engine_size = specs.engine_size,
        !.fuel_type = specs.fuel_type]

NoPage ==
    [description |-> Absent, price |-> Absent, seller |-> Absent,
     specs |-> NoList, tech |-> NoList, check |-> NoList]

ScrapeReset ==
    /\ ad_browser' = Unbound
    /\ next_ad' = Advertisement
    /\ next_description' = Unbound
    /\ next_price' = Unbound
    /\ next_seller' = Unbound
    /\ car_specs' = UnknownSpecs
    /\ next_emission' = Unbound
    /\ vehicle_check' = UnknownCheck
    /\ seen' = NoPage

\* Lines 299-302: Advertisement(), next_url, open_browser(next_url).
ScrapeOneOpen ==
    /\ spc = "start"
    /\ next_ad' = Advertisement
    /\ \E b \in OpenResults : ad_browser' = b
    /\ firefox' = firefox + 1
    /\ spc' = "required"
    /\ exc' = NoExc
    /\ UNCHANGED <<car_id, next_description, next_price, next_seller, car_specs,
                   next_emission, vehicle_check, seen, main_vars, harvest_vars>>

ScrapeRaise(e) ==
    /\ spc' = "raised"
    /\ exc' = e

\* Lines 306-318: description, price, and the seller paragraph with or without <a>.
ScrapeOneRequired(site) ==
    /\ spc = "required"
    /\ IF ad_browser = None
       THEN /\ ScrapeRaise("AttributeError:307")
            /\ UNCHANGED <<next_description, next_price, next_seller, seen>>
       ELSE \E d \in site.descriptions, p \in site.prices, s \in site.sellers :
              IF ~d.present
              THEN /\ ScrapeRaise("NoSuchElementException:307")
                   /\ UNCHANGED <<next_description, next_price, next_seller, seen>>
              ELSE IF ~p.present
              THEN /\ ScrapeRaise("NoSuchElementException:310")
                   /\ next_description' = d.text
                   /\ UNCHANGED <<next_price, next_seller, seen>>
              ELSE IF ~s.present
              THEN /\ ScrapeRaise("NoSuchElementException:314")
                   /\ next_description' = d.text
                   /\ next_price' = p.text
                   /\ UNCHANGED <<next_seller, seen>>
              ELSE /\ next_description' = d.text
                   /\ next_price' = p.text
                   /\ next_seller' = IF s.text = "a" THEN "Dealer" ELSE "Private"
                   /\ seen' = [seen EXCEPT !.description = d, !.price = p, !.seller = s]
                   /\ spc' = "specs"
                   /\ exc' = NoExc
    /\ UNCHANGED <<car_id, ad_browser, next_ad, car_specs, next_emission,
                   vehicle_check, firefox, main_vars, harvest_vars>>

\* Lines 321-355: car_specs from the key-specifications list, if the page has one.
ScrapeOneSpecs(site) ==
    /\ spc = "specs"
    /\ \E l \in site.specs :
         LET r == IF l.present THEN ScanSpecs(UnknownSpecs, l.items)
                  ELSE [car_specs |-> UnknownSpecs, exc |-> NoExc]
         IN /\ car_specs' = r.car_specs
            /\ IF r.exc # NoExc
               THEN /\ ScrapeRaise(r.exc)
                    /\ UNCHANGED seen
               ELSE /\ seen' = [seen EXCEPT !.specs = l]
                    /\ spc' = "tech"
                    /\ exc' = NoExc
    /\ UNCHANGED <<car_id, ad_browser, next_ad, next_description, next_price,
                   next_seller, next_emission, vehicle_check, firefox, main_vars,
                   harvest_vars>>

\* Lines 357-366: co2 emission from the tech-specs table, if the page has one.
ScrapeOneTech(site) ==
    /\ spc = "tech"
    /\ \E l \in site.tech :
         LET r == IF l.present THEN ScanEmission(l.items)
                  ELSE [value |-> "Unknown", exc |-> NoExc]
         IN IF r.exc # NoExc
            THEN /\ ScrapeRaise(r.exc)
                 /\ next_emission' = "Unknown"
                 /\ UNCHANGED seen
            ELSE /\ next_emission' = r.value
                 /\ seen' = [seen EXCEPT !.tech = l]
                 /\ spc' = "check"
                 /\ exc' = NoExc
    /\ UNCHANGED <<car_id, ad_browser, next_ad, next_description, next_price,
                   next_seller, car_specs, vehicle_check, firefox, main_vars,
                   harvest_vars>>

\* Lines 368-409: the vehicle check list, if the page has one; then the
\* Advertisement is filled in, the browser cleaned up, and next_ad returned.
ScrapeOneCheckAndBuild(site) ==
    /\ spc = "check"
    /\ \E l \in site.check :
         LET r == IF l.present THEN ScanVehicleCheck(l.items)
                  ELSE [check |-> UnknownCheck, exc |-> NoExc]
         IN IF r.exc # NoExc
            THEN /\ ScrapeRaise(r.exc)
                 /\ UNCHANGED <<vehicle_check, seen, next_ad, ad_browser, firefox>>
            ELSE /\ vehicle_check' = r.check
                 /\ seen' = [seen EXCEPT !.check = l]
                 /\ next_ad' = BuildAdvertisement(AdvertUrl(car_id), next_description,
                                   next_seller, next_price, car_specs, next_emission,
                                   r.check)
                 /\ ad_browser' = CleanUp(ad_browser)
                 /\ firefox' = Running(ad_browser, firefox)
                 /\ spc' = "returned"
                 /\ exc' = NoExc
    /\ UNCHANGED <<car_id, next_description, next_price, next_seller, car_specs,
                   next_emission, main_vars, harvest_vars>>

ScrapeEnded == spc \in {"returned", "raised"}

\* ------------------------------------------------------ search_all_car_types
\* Lines 183-184: the next car of these_cars is handed to search_one_car_type.
SearchAllCall ==
    /\ main_pc = "search_all"
    /\ hpc = "idle"
    /\ car_idx <= Len(these_cars)
    /\ next_car' = these_cars[car_idx]
    /\ hpc' = "start"
    /\ HarvestReset
    /\ UNCHANGED <<main_vars, scrape_vars, firefox, exc>>

\* Line 187.
QuickTuple(car, next_set) == <<car.make, car.model, next_set>>

\* Lines 187-188: the returned set is bundled with make and model and appended.
SearchAllCollect ==
    /\ main_pc = "search_all"
    /\ hpc = "returned"
    /\ results_list' = Append(results_list, QuickTuple(next_car, cars_found))
    /\ car_idx' = car_idx + 1
    /\ hpc' = "idle"
    /\ next_car' = CarTup("", "", "0")
    /\ HarvestReset
    /\ UNCHANGED <<these_cars, main_pc, tup_idx, pending, all_ads, ads_seen,
                   scrape_vars, firefox, exc>>

\* An exception of search_one_car_type is caught nowhere: it ends the run.
SearchAllRaise ==
    /\ main_pc = "search_all"
    /\ hpc = "raised"
    /\ main_pc' = "raised"
    /\ UNCHANGED <<these_cars, car_idx, results_list, tup_idx, pending, all_ads,
                   ads_seen, harvest_vars, scrape_vars, firefox, exc>>

\* Line 190, and main, line 423: results_list goes to scrape_all_cars.
SearchAllReturn ==
    /\ main_pc = "search_all"
    /\ hpc = "idle"
    /\ car_idx > Len(these_cars)
    /\ main_pc' = "scrape_all"
    /\ UNCHANGED <<these_cars, car_idx, results_list, tup_idx, pending, all_ads,
                   ads_seen, harvest_vars, scrape_vars, firefox, exc>>

\* ------------------------------------------------------------ scrape_all_cars
\* Lines 270-273: the next tuple; its car_set is about to be iterated.
ScrapeAllTuple ==
    /\ main_pc = "scrape_all"
    /\ spc = "idle"
    /\ pending = {}
    /\ tup_idx < Len(results_list)
    /\ tup_idx' = tup_idx + 1
    /\ pending' = results_list[tup_idx + 1][3]
    /\ UNCHANGED <<these_cars, main_pc, car_idx, results_list, all_ads, ads_seen,
                   harvest_vars, scrape_vars, firefox, exc>>

\* Lines 276-277: the set is iterated in no particular order.
ScrapeAllCall ==
    /\ main_pc = "scrape_all"
    /\ spc = "idle"
    /\ \E id \in pending :
         /\ car_id' = id
         /\ pending' = pending \ {id}
    /\ spc' = "start"
    /\ ScrapeReset
    /\ UNCHANGED <<these_cars, main_pc, car_idx, results_list, tup_idx, all_ads,
                   ads_seen, harvest_vars, firefox, exc>>

\* Lines 278-279.
StampSwapped(ad, next_make, next_model) ==
    [ad EXCEPT !.make = next_model, !.model = next_make]
Stamp(ad, next_make, next_model) ==
    [ad EXCEPT !.make = next_make, !.model = next_model]

\* Lines 278-281: make and model of the tuple are put on the ad; it is appended.
ScrapeAllCollect ==
    /\ main_pc = "scrape_all"
    /\ spc = "returned"
    /\ all_ads' = Append(all_ads, Stamp(next_ad, results_list[tup_idx][1],
                                        results_list[tup_idx][2]))
    /\ ads_seen' = Append(ads_seen, seen)
    /\ spc' = "idle"
    /\ car_id' = ""
    /\ ScrapeReset
    /\ UNCHANGED <<these_cars, main_pc, car_idx, results_list, tup_idx, pending,
                   harvest_vars, firefox, exc>>

\* An exception of scrape_one_car is caught nowhere: it ends the run.
ScrapeAllRaise ==
    /\ main_pc = "scrape_all"
    /\ spc = "raised"
    /\ main_pc' = "raised"
    /\ UNCHANGED <<these_cars, car_idx, results_list, tup_idx, pending, all_ads,
                   ads_seen, harvest_vars, scrape_vars, firefox, exc>>

\* Line 283.
ScrapeAllReturn ==
    /\ main_pc = "scrape_all"
    /\ spc = "idle"
    /\ pending = {}
    /\ tup_idx = Len(results_list)
    /\ main_pc' = "done"
    /\ UNCHANGED <<these_cars, car_idx, results_list, tup_idx, pending, all_ads,
                   ads_seen, harvest_vars, scrape_vars, firefox, exc>>

\* ------------------------------------------------------------ the sites
\* The listing ids the search site can show.
ListingIds == {"A", "B", "C", "D", "E"}

Texts == {"a", "b"}
WellFormedEntries == {SpecEntry(m, t) : m \in Markers \cup {OtherMarker}, t \in Texts}
BrokenEntries == {EntryNoIcon, EntryNoHref, EntryNoHash}

\* Rows of the tech-specs table: the spans of each row, by innerHTML.
TechRows == {<<>>, <<"CO2 emissions">>, <<"CO2 emissions", "">>,
             <<"CO2 emissions", "99g/km">>}
TechTables == {<<>>} \cup {<<r>> : r \in TechRows}
                  \cup {<<<<"Insurance group", "7E">>, r>> : r \in TechRows}

\* Items of the vehicle check list: the spans of each item, by text.
CheckItems == {<<"check">>, <<"check", "Clear">>, <<"check", "">>}

\* Detail pages with every key-specifications list within the bound.
DetailSite ==
    [descriptions |-> {Absent, Shown("Ford Fiesta 1.0")},
     prices |-> {Absent, Shown("5,000")},
     sellers |-> {Absent, Shown("a"), Shown("")},
     specs |-> {NoList} \cup {ListOf(l) :
                  l \in SeqsUpTo(WellFormedEntries \cup BrokenEntries, MaxEntries)},
     tech |-> {NoList} \cup {ListOf(l) : l \in TechTables},
     check |-> {NoList} \cup {ListOf(l) : l \in SeqsUpTo(CheckItems \ {<<"check", "">>}, 3)}]

\* Detail pages with every text present, empty or absent, and short lists.
TextSite ==
    [descriptions |-> {Absent, Shown(""), Shown("Ford Fiesta 1.0")},
     prices |-> {Absent, Shown(""), Shown("5,000")},
     sellers |-> {Absent, Shown("a"), Shown("")},
     specs |-> {NoList} \cup {ListOf(l) :
                  l \in SeqsUpTo({SpecEntry(m, t) : m \in Markers, t \in {"", "a"}}
                                   \cup {EntryNoHash}, 1)},
     tech |-> {NoList} \cup {ListOf(l) : l \in TechTables},
     check |-> {NoList} \cup {ListOf(l) : l \in SeqsUpTo(CheckItems, 3)}]

\* A few detail pages and car types, for runs that scrape several cars.
SampleSite ==
    [descriptions |-> {Absent, Shown("Ford Fiesta 1.0")},
     prices |-> {Shown("5,000")},
     sellers |-> {Shown("a")},
     specs |-> {NoList, ListOf(<<SpecEntry("ks-doors", "5 doors")>>)},
     tech |-> {NoList},
     check |-> {NoList}]
SampleIds == {"A", "B"}
SampleCars == {CarTup("Ford", "Fiesta", "2"), CarTup("Audi", "A4", "1"),
               CarTup("Ford", "Focus", "0")}

ScrapeIdle ==
    /\ spc = "idle"
    /\ car_id = ""
    /\ ad_browser = Unbound
    /\ next_ad = Advertisement
    /\ next_description = Unbound
    /\ next_price = Unbound
    /\ next_seller = Unbound
    /\ car_specs = UnknownSpecs
    /\ next_emission = Unbound
    /\ vehicle_check = UnknownCheck
    /\ seen = NoPage

HarvestIdle ==
    /\ hpc = "idle"
    /\ next_car = CarTup("", "", "0")
    /\ total_cars = 0
    /\ browser = Unbound
    /\ cars_found = {}
    /\ clicks = 0
    /\ pagesRead = <<>>

MainIdle ==
    /\ these_cars = <<>>
    /\ main_pc = "none"
    /\ car_idx = 0
    /\ results_list = <<>>
    /\ tup_idx = 0
    /\ pending = {}
    /\ all_ads = <<>>
    /\ ads_seen = <<>>

\* --------------------------------------- one call search_one_car_type(next_car)
InitHarvest ==
    /\ MainIdle
    /\ ScrapeIdle
    /\ hpc = "start"
    /\ \E t \in TotalStrings : next_car = CarTup("Ford", "Fiesta", t)
    /\ total_cars = 0
    /\ browser = Unbound
    /\ cars_found = {}
    /\ clicks = 0
    /\ pagesRead = <<>>
    /\ firefox = 0
    /\ exc = NoExc

NextHarvest ==
    \/ SearchOneOpen
    \/ SearchOneHeader
    \/ SearchOneReadPage(ListingIds)
    \/ SearchOneNextPage

SpecHarvest == InitHarvest /\ [][NextHarvest]_vars

\* The same call on a site with three listings, and the harvest kept running:
\* every step of it ends (find_element returns or raises, the wait for the
\* staleness of the arrow is bounded by 60 s), so a step that can be taken is taken.
PagingIds == {"A", "B", "C"}

NextPaging ==
    \/ SearchOneOpen
    \/ SearchOneHeader
    \/ SearchOneReadPage(PagingIds)
    \/ SearchOneNextPage

FairPaging == InitHarvest /\ [][NextPaging]_vars /\ WF_vars(NextPaging)

\* ------------------------------------------- one call scrape_one_car(next_car)
InitScrape ==
    /\ MainIdle
    /\ HarvestIdle
    /\ spc = "start"
    /\ car_id \in {"A", "201910012835451"}
    /\ ad_browser = Unbound
    /\ next_ad = Advertisement
    /\ next_description = Unbound
    /\ next_price = Unbound
    /\ next_seller = Unbound
    /\ car_specs = UnknownSpecs
    /\ next_emission = Unbound
    /\ vehicle_check = UnknownCheck
    /\ seen = NoPage
    /\ firefox = 0
    /\ exc = NoExc

NextScrape ==
    \/ ScrapeOneOpen
    \/ ScrapeOneRequired(DetailSite)
    \/ ScrapeOneSpecs(DetailSite)
    \/ ScrapeOneTech(DetailSite)
    \/ ScrapeOneCheckAndBuild(DetailSite)

SpecScrape == InitScrape /\ [][NextScrape]_vars

\* ------------------------------------------ one call scrape_all_cars(these_cars)
InitScrapeAll ==
    /\ HarvestIdle
    /\ ScrapeIdle
    /\ these_cars = <<>>
    /\ main_pc = "scrape_all"
    /\ car_idx = 0
    /\ results_list \in {<<<<make, "Fiesta", {"A"}>>>> : make \in {"", "Ford"}}
    /\ tup_idx = 0
    /\ pending = {}
    /\ all_ads = <<>>
    /\ ads_seen = <<>>
    /\ firefox = 0
    /\ exc = NoExc

NextScrapeAll ==
    \/ ScrapeAllTuple
    \/ ScrapeAllCall
    \/ ScrapeAllCollect
    \/ ScrapeAllRaise
    \/ ScrapeAllReturn
    \/ ScrapeOneOpen
    \/ ScrapeOneRequired(TextSite)
    \/ ScrapeOneSpecs(TextSite)
    \/ ScrapeOneTech(TextSite)
    \/ ScrapeOneCheckAndBuild(TextSite)

SpecScrapeAll == InitScrapeAll /\ [][NextScrapeAll]_vars

\* ------------------- main: search_all_car_types, then scrape_all_cars
Init ==
    /\ HarvestIdle
    /\ ScrapeIdle
    /\ these_cars \in SeqsUpTo(SampleCars, MaxCars)
    /\ main_pc = "search_all"
    /\ car_idx = 1
    /\ results_list = <<>>
    /\ tup_idx = 0
    /\ pending = {}
    /\ all_ads = <<>>
    /\ ads_seen = <<>>
    /\ firefox = 0
    /\ exc = NoExc

Next ==
    \/ SearchAllCall
    \/ SearchAllCollect
    \/ SearchAllRaise
    \/ SearchAllReturn
    \/ SearchOneOpen
    \/ SearchOneHeader
    \/ SearchOneReadPage(SampleIds)
    \/ SearchOneNextPage
    \/ ScrapeAllTuple
    \/ ScrapeAllCall
    \/ ScrapeAllCollect
    \/ ScrapeAllRaise
    \/ ScrapeAllReturn
    \/ ScrapeOneOpen
    \/ ScrapeOneRequired(SampleSite)
    \/ ScrapeOneSpecs(SampleSite)
    \/ ScrapeOneTech(SampleSite)
    \/ ScrapeOneCheckAndBuild(SampleSite)

Spec == Init /\ [][Next]_vars

\* ===================================================================== claims
Range(f) == {f[i] : i \in DOMAIN f}
UnionUpTo(k) == UNION {pagesRead[j] : j \in 1..k}

\* C1: when open_browser returns no session, search_one_car_type returns the
\* empty set without raising and the run goes on: a failed session never
\* leaves the harvest, or the run, ended by an exception.
C1_OpenFailureIsNotFatal ==
    browser = None =>
        /\ hpc # "raised"
        /\ main_pc # "raised"
        /\ (hpc = "returned" => cars_found = {})

\* C2 as stated: a harvest with expected count 0 returns the empty set, having
\* read at most one page and triggered no next-page navigation.
C2_ZeroExpectedReturnsEmpty ==
    (hpc = "returned" /\ next_car.total = "0") =>
        /\ cars_found = {}
        /\ Len(pagesRead) <= 1
        /\ clicks = 0

\* C2 as amended: a harvest with expected count 0 never looks for the next-page
\* control and reads at most one page; when it returns it has read exactly one
\* page and returns exactly the ids that page showed.
C2_ZeroExpectedReturnsFirstPage ==
    next_car.total = "0" =>
        /\ hpc # "next"
        /\ clicks = 0
        /\ Len(pagesRead) <= 1
        /\ (hpc = "returned" => Len(pagesRead) = 1 /\ cars_found = pagesRead[1])

C2_Witness ==
    /\ hpc = "returned"
    /\ next_car.total = "0"
    /\ cars_found # {}

ScenarioPages == <<{"A", "B", "C"}, {"C", "D", "E"}>>

\* C3: the next-page control is looked for and triggered only while the set
\* accumulated so far is smaller than the expected count: every page but the
\* last one read left the set below the count, each page after the first cost
\* exactly one navigation, and the set returned is the union of the pages read.
\* For pages {A,B,C} then {C,D,E} and expected count 5 the harvest returns
\* exactly {A,B,C,D,E} after one navigation and reads no third page.
C3_NextPageOnlyBelowThreshold ==
    /\ hpc = "next" => Cardinality(cars_found) < total_cars
    /\ \A k \in 1..(Len(pagesRead) - 1) : Cardinality(UnionUpTo(k)) < total_cars
    /\ clicks <= Len(pagesRead)
    /\ Len(pagesRead) >= 1 => clicks >= Len(pagesRead) - 1
    /\ hpc \in {"next", "returned"} => clicks = Len(pagesRead) - 1
    /\ hpc = "returned" => cars_found = UnionUpTo(Len(pagesRead))
    /\ (/\ total_cars = 5
        /\ Len(pagesRead) >= 2
        /\ SubSeq(pagesRead, 1, 2) = ScenarioPages)
       => /\ pagesRead = ScenarioPages
          /\ hpc = "returned"
          /\ clicks = 1
          /\ cars_found = {"A", "B", "C", "D", "E"}

C3_Witness ==
    /\ hpc = "returned"
    /\ total_cars = 5
    /\ pagesRead = ScenarioPages
    /\ clicks = 1
    /\ cars_found = {"A", "B", "C", "D", "E"}

PaginationFailures == {"NoSuchElementException:243", "TimeoutException:246"}

\* C4: a set returned by search_one_car_type has at least as many elements as
\* the expected count, and a failure of the pagination (no next-page control,
\* the wait for staleness timing out) ends the harvest by that exception: the
\* partial set is not returned and the loop does not go on.
C4_ReturnedSetMeetsExpected ==
    /\ hpc = "returned" =>
          /\ browser # None
          /\ Cardinality(cars_found) >= total_cars
          /\ exc \notin PaginationFailures
    /\ exc \in PaginationFailures =>
          /\ hpc = "raised"
          /\ Cardinality(cars_found) < total_cars

C4_Witness ==
    /\ hpc = "returned"
    /\ clicks >= 1
    /\ Cardinality(cars_found) >= total_cars
    /\ total_cars >= 2

\* C5: when a harvest or an extraction has ended, by return or by exception,
\* the session it opened is no longer open.
C5_SessionClosedOnEveryExit ==
    /\ HarvestEnded => browser # "open"
    /\ ScrapeEnded => ad_browser # "open"

\* C6 as stated: every field of every Advertisement of the returned list is
\* "Unknown" or a non-empty value, that is, no field is the empty string.
C6_NoFieldEmpty ==
    \A i \in 1..Len(all_ads) : \A f \in AdFields : all_ads[i][f] # ""

SpecTextsOf(page) == {e.text : e \in Range(page.specs.items)}
EmissionsOf(page) == {r[2] : r \in {x \in Range(page.tech.items) : Len(x) >= 2}}
ChecksOf(page) == {c[2] : c \in {x \in Range(page.check.items) : Len(x) >= 2}}

\* C6 as amended: every field of every Advertisement of the returned list has
\* been assigned. hyperlink is the detail URL of an id of the tuple, seller_type
\* is "Dealer" or "Private", make and model are the tuple's, description and
\* price are the texts the page showed, and every other field is "Unknown" or a
\* text the page showed for it; such a text, like the tuple's make or model,
\* may be the empty string.
C6_EveryFieldAssigned ==
    Len(ads_seen) = Len(all_ads) /\
    \A i \in 1..Len(all_ads) :
        LET ad == all_ads[i]
            page == ads_seen[i]
        IN \E t \in Range(results_list) :
            /\ ad.hyperlink \in {AdvertUrl(id) : id \in t[3]}
            /\ ad.hyperlink # ""
            /\ ad.make = t[1]
            /\ ad.model = t[2]
            /\ ad.seller_type = (IF page.seller.text = "a" THEN "Dealer" ELSE "Private")
            /\ page.description.present /\ ad.description = page.description.text
            /\ page.price.present /\ ad.price = page.price.text
            /\ \A f \in DOMAIN UnknownSpecs : ad[f] \in {"Unknown"} \cup SpecTextsOf(page)
            /\ ad.co2emission \in {"Unknown"} \cup EmissionsOf(page)
            /\ \A f \in {"was_stolen", "was_scrapped", "was_write_off"} :
                  ad[f] \in {"Unknown"} \cup ChecksOf(page)
            /\ ~page.specs.present => \A f \in DOMAIN UnknownSpecs : ad[f] = "Unknown"
            /\ ~page.tech.present => ad.co2emission = "Unknown"
            /\ ~page.check.present =>
                  \A f \in {"was_stolen", "was_scrapped", "was_write_off"} :
                      ad[f] = "Unknown"

C6_Witness ==
    /\ main_pc = "done"
    /\ Len(all_ads) = 1
    /\ all_ads[1].description = ""
    /\ all_ads[1].price # ""
    /\ all_ads[1].co2emission = ""
    /\ all_ads[1].was_stolen = "Clear"

RequiredFailures == {"AttributeError:307", "NoSuchElementException:307",
                     "NoSuchElementException:310", "NoSuchElementException:314"}

\* C7: an extraction whose session opened and whose page has the description,
\* the price and the seller region never ends by an exception, whatever is
\* present, absent or partly present among the optional parts of the page.
C7_OptionalPartsNeverRaise ==
    spc = "raised" => exc \in RequiredFailures

\* The fixed table of the claim: the marker of each field.
FieldMarker ==
    [year |-> "ks-manufactured-year", body_style |-> "ks-body-type",
     mileage |-> "ks-mileage", engine_size |-> "ks-engine-size",
     transmission |-> "ks-transmission", fuel_type |-> "ks-fuel-type",
     doors |-> "ks-doors"]

\* The positions of the entries that carry the marker of field f.
Carrying(entries, f) == {i \in 1..Len(entries) : entries[i].segs[2] = FieldMarker[f]}
Last(S) == CHOOSE i \in S : \A j \in S : j <= i

\* C8: once the key-specifications list has been processed, each of the seven
\* fields holds the text of the last entry carrying its marker, or "Unknown"
\* when no entry carries it (entries with another marker change nothing, and
\* no field depends on the entries of another field); the Advertisement
\* returned carries these values.
C8_LastEntryWins ==
    spc \in {"tech", "check", "returned"} =>
        LET entries == seen.specs.items
        IN \A f \in DOMAIN FieldMarker :
              /\ car_specs[f] = IF Carrying(entries, f) = {} THEN "Unknown"
                                ELSE entries[Last(Carrying(entries, f))].text
              /\ spc = "returned" => next_ad[f] = car_specs[f]

C8_Witness ==
    /\ spc = "returned"
    /\ seen.specs.items = <<SpecEntry("ks-doors", "a"), SpecEntry("ks-doors", "b")>>
    /\ next_ad.doors = "b"
    /\ next_ad.year = "Unknown"

RECURSIVE Offset(_)
\* The number of ids in the first k tuples of results_list.
Offset(k) == IF k = 0 THEN 0 ELSE Offset(k - 1) + Cardinality(results_list[k][3])
Block(k) == (Offset(k - 1) + 1)..Offset(k)

C10_HarvestEnds ==
    /\ [](exc = "NoSuchElementException:243" =>
            hpc = "raised" /\ Cardinality(cars_found) < total_cars)
    /\ <>HarvestEnded

C10_Witness ==
    /\ hpc = "raised"
    /\ exc = "NoSuchElementException:243"
    /\ Len(pagesRead) = MaxPages
    /\ clicks = MaxPages - 1
====
